---- MODULE Spec2Model ----
(***************************************************************************)
(* The authenticated HTTP session layer of ExpoMoney                       *)
(* (src/src/services/api.ts): the axios client `api` with its request and  *)
(* response interceptors, refreshAuthToken, AuthService.logout, and the    *)
(* login flow of src/src/screens/Login.tsx.  The History screen            *)
(* (src/src/screens/History.tsx) calls the backend with axios directly,    *)
(* outside the client and its interceptors.                                *)
(*                                                                         *)
(* Every `await` of the code is a point where another request's            *)
(* continuation may run, so each request is a process whose pc names the   *)
(* await it is suspended at.  A 401 on a call makes the response           *)
(* interceptor call refreshAuthToken, whose POST auth/refresh/ goes        *)
(* through the same client: the calls of one logical request form a stack  *)
(* (the original call at level 0, refresh posts above it).  Every frame    *)
(* below the top is a call whose _retry flag is set and whose interceptor  *)
(* awaits refreshAuthToken, so the stack is its height, `depth`.           *)
(***************************************************************************)
EXTENDS Integers, FiniteSets, Sequences, TLC

\* ---------------------------------------------------------------- bounds
NumReq == 2        \* logical requests the screens issue
MaxTok == 3        \* access tokens the backend issues (token 1 is the stored one)
MaxDepth == 2      \* depth = MaxDepth stands for "MaxDepth frames or more"

Req == 1..NumReq

\* getItem's null: the key is not in AsyncStorage
Absent == 0

\* the one refresh token the device can hold
RefreshTok == 1

Tokens == 1..MaxTok

\* `Bearer ${token}` built from getItem's null: the header "Bearer null"
BearerNull == -1

\* "data": a Service call through `api`; "login": login(); "raw": a call the
\* History screen makes with axios itself
Kinds == {"data", "login", "raw"}

\* what request i may be: the Login screen submits through the first request
\* only (one submission in a run), the History screen calls through the
\* others, every request may be a Service call
KindsOf(i) == IF i = 1 THEN {"data", "login"} ELSE {"data", "raw"}

NoErr == "none"

E401 == "E401"

EOther == "EOther"

ENoRefresh == "ENoRefresh"

VARIABLES
  storeAccess,   \* AsyncStorage['@access_token']: a token or Absent
  storeRefresh,  \* AsyncStorage['@refresh_token']: RefreshTok or Absent
  issued,        \* backend: the last access token it issued
  validFrom,     \* backend: access tokens t >= validFrom are accepted
  refreshValid,  \* backend: RefreshTok is still accepted by auth/refresh/
  loggedOut,     \* AuthService.logout has been called
  isLoading,     \* App.tsx: the isLoading state (the spinner is shown)
  isLoggedIn,    \* App.tsx: the isLoggedIn state (the main tabs are shown)
  pc,            \* per request: the await it is suspended at
  kind,          \* per request: "data" (a Service call) or "login"
  depth,         \* per request: height of its call stack above the original call
  retry,         \* per request: config._retry of the top call
  hdr,           \* per request: config.headers.Authorization of the top call,
                 \*   kept while it can still be sent (line 63 rewrites it
                 \*   before a call is sent again)
  val,           \* per request: response.data.access being handed on
  err,           \* per request: the error being thrown on
  result,        \* per request: how the caller's promise settled
  first,         \* per request: status of the first answer to the original call
  refreshes,     \* per request: POST auth/refresh/ calls sent on its behalf
  sends          \* per request: times the original call was sent

vars == <<storeAccess, storeRefresh, issued, validFrom, refreshValid, loggedOut,
          isLoading, isLoggedIn, pc, kind, depth, retry, hdr, val, err, result, first, refreshes, sends>>

backend == <<issued, validFrom, refreshValid>>

app == <<isLoading, isLoggedIn>>

Min(a, b) == IF a < b THEN a ELSE b

\* the counters stop where the stack height does: MaxDepth refresh calls
\* stand for "MaxDepth or more", one more send than that for the sends
MaxRefreshes == MaxDepth

MaxSends == MaxDepth + 1

Pending == [how |-> "pending", err |-> NoErr]

Resolved == [how |-> "response", err |-> NoErr]

\* Promise.reject(error), api.ts line 72
Rejected(e) == [how |-> "rejected", err |-> e]

\* Promise.reject(refreshError) after multiRemove, api.ts lines 66-68
Expired(e) == [how |-> "expired", err |-> e]

\* ------------------------------------------------------------------ Init
\* AsyncStorage is durable: at process start it holds what an earlier run
\* left, either nothing or a token pair.  The backend has issued token 1.
Init ==
  /\ \E present \in BOOLEAN :
       /\ storeAccess = IF present THEN 1 ELSE Absent
       /\ storeRefresh = IF present THEN RefreshTok ELSE Absent
  /\ issued = 1
  /\ validFrom = 1
  /\ refreshValid = TRUE
  /\ loggedOut = FALSE
  /\ isLoading = TRUE
  /\ isLoggedIn = FALSE
  /\ pc = [i \in Req |-> "idle"]
  /\ kind = [i \in Req |-> "data"]
  /\ depth = [i \in Req |-> 0]
  /\ retry = [i \in Req |-> FALSE]
  /\ hdr = [i \in Req |-> Absent]
  /\ val = [i \in Req |-> Absent]
  /\ err = [i \in Req |-> NoErr]
  /\ result = [i \in Req |-> Pending]
  /\ first = [i \in Req |-> "none"]
  /\ refreshes = [i \in Req |-> 0]
  /\ sends = [i \in Req |-> 0]

\* ---------------------------------------------------------------- backend
\* The REST backend is outside the repository; the client sees only the
\* status of each response (error.response?.status) and response.data.
Ok(a) == [status |-> "200", access |-> a]

Unauthorized == [status |-> "401", access |-> Absent]

\* any non-401 failure: another HTTP status, or no response at all
Fault == [status |-> "other", access |-> Absent]

\* the backend accepts the bearer token h
Accepts(h) == h # Absent /\ h >= validFrom

\* what the backend may answer to the call request i has in flight
Answers(i) ==
  {Fault} \cup
  ( IF depth[i] > 0
      THEN \* POST auth/refresh/ {refresh: RefreshTok}
           IF refreshValid
             THEN (IF issued < MaxTok THEN {Ok(issued + 1)} ELSE {})
             ELSE {Unauthorized}
    ELSE IF kind[i] = "login"
      THEN \* POST auth/login/: the credentials are right or wrong
           {Unauthorized} \cup (IF issued < MaxTok THEN {Ok(issued + 1)} ELSE {})
    ELSE \* a protected endpoint
         IF Accepts(hdr[i]) THEN {Ok(Absent)} ELSE {Unauthorized} )

\* the backend's clock passes the expiry of some of the issued access tokens
ExpireAccess ==
  /\ \E v \in (validFrom + 1)..(issued + 1) : validFrom' = v
  /\ UNCHANGED <<storeAccess, storeRefresh, issued, refreshValid, loggedOut, app,
                 pc, kind, depth, retry, hdr, val, err, result, first, refreshes, sends>>

\* the refresh token expires or is revoked
ExpireRefresh ==
  /\ refreshValid
  /\ refreshValid' = FALSE
  /\ UNCHANGED <<storeAccess, storeRefresh, issued, validFrom, loggedOut, app,
                 pc, kind, depth, retry, hdr, val, err, result, first, refreshes, sends>>

\* ----------------------------------------------------------------- client
\* the frame a call returns into: depth MaxDepth stands for MaxDepth or more
Below(d) == IF d = MaxDepth THEN {MaxDepth - 1, MaxDepth} ELSE {d - 1}

\* a screen calls api.get / api.post / api.put / api.delete, or login().
\* App.tsx lines 73-110: no screen is mounted while isLoading; the Login
\* screen is mounted when isLoggedIn is false, the main tabs (Dashboard,
\* Charts, History) when it is true.
Issue(i) ==
  /\ pc[i] = "idle"
  /\ ~isLoading
  /\ \E k \in KindsOf(i) :
       /\ (k = "login") <=> ~isLoggedIn
       /\ kind' = [kind EXCEPT ![i] = k]
       /\ pc' = [pc EXCEPT ![i] = IF k = "raw" THEN "rawRead" ELSE "reqInt"]
  /\ UNCHANGED <<storeAccess, storeRefresh, backend, loggedOut, app,
                 depth, retry, hdr, val, err, result, first, refreshes, sends>>

\* a request interceptor that leaves a header that is already set alone
RequestInterceptorKeepsHeader(i) ==
  /\ pc[i] = "reqInt"
  /\ hdr' = [hdr EXCEPT ![i] = IF @ = Absent /\ storeAccess # Absent
                                  THEN storeAccess ELSE @]
  /\ pc' = [pc EXCEPT ![i] = "sent"]
  /\ sends' = [sends EXCEPT ![i] = IF depth[i] = 0 THEN Min(@ + 1, MaxSends) ELSE @]
  /\ refreshes' = [refreshes EXCEPT ![i] = IF depth[i] > 0 THEN Min(@ + 1, MaxRefreshes) ELSE @]
  /\ UNCHANGED <<storeAccess, storeRefresh, backend, loggedOut, app,
                 kind, depth, retry, val, err, result, first>>

\* api.interceptors.request.use: getItem resolves, the header is set when a
\* token is stored, and the call is dispatched
RequestInterceptor(i) ==
  /\ pc[i] = "reqInt"
  /\ hdr' = [hdr EXCEPT ![i] = IF storeAccess # Absent THEN storeAccess ELSE @]
  /\ pc' = [pc EXCEPT ![i] = "sent"]
  /\ sends' = [sends EXCEPT ![i] = IF depth[i] = 0 THEN Min(@ + 1, MaxSends) ELSE @]
  /\ refreshes' = [refreshes EXCEPT ![i] = IF depth[i] > 0 THEN Min(@ + 1, MaxRefreshes) ELSE @]
  /\ UNCHANGED <<storeAccess, storeRefresh, backend, loggedOut, app,
                 kind, depth, retry, val, err, result, first>>

\* the interceptor without the status test of line 58: any failed call
\* starts a refresh
ShouldRefreshOnAnyError(i, r) == r.status # "200" /\ ~retry[i]

\* line 58: error.response?.status === 401 && !originalRequest._retry
ShouldRefresh(i, r) == r.status = "401" /\ ~retry[i]

\* api.interceptors.response.use, up to its first await, on the answer r
OnResponse(i, r) ==
  /\ issued' = IF r.access # Absent THEN r.access ELSE issued
  /\ IF r.status = "200"
       THEN IF depth[i] > 0
              THEN \* refreshAuthToken line 40 resumes and awaits setItem
                   /\ \E d \in Below(depth[i]) : depth' = [depth EXCEPT ![i] = d]
                   /\ retry' = [retry EXCEPT ![i] = TRUE]
                   /\ pc' = [pc EXCEPT ![i] = "setTok"]
                   /\ val' = [val EXCEPT ![i] = r.access]
                   /\ UNCHANGED <<err, result>>
            ELSE IF kind[i] = "login"
              THEN \* login() returns response.data; handleLogin awaits setItem
                   /\ pc' = [pc EXCEPT ![i] = "loginStore"]
                   /\ val' = [val EXCEPT ![i] = r.access]
                   /\ UNCHANGED <<depth, retry, err, result>>
            ELSE /\ pc' = [pc EXCEPT ![i] = "done"]
                 /\ result' = [result EXCEPT ![i] = Resolved]
                 /\ UNCHANGED <<depth, retry, val, err>>
     ELSE IF ShouldRefresh(i, r)
       THEN \* lines 58-62: _retry = true, refreshAuthToken awaits getItem
            /\ retry' = [retry EXCEPT ![i] = TRUE]
            /\ pc' = [pc EXCEPT ![i] = "refRead"]
            /\ UNCHANGED <<depth, val, err, result>>
     ELSE \* line 72: Promise.reject(error)
          LET e == IF r.status = "401" THEN E401 ELSE EOther IN
          IF depth[i] = 0
            THEN /\ pc' = [pc EXCEPT ![i] = "done"]
                 /\ result' = [result EXCEPT ![i] = Rejected(e)]
                 /\ UNCHANGED <<depth, retry, val, err>>
          ELSE \* the refresh post throws in refreshAuthToken: catch, line 66
               /\ \E d \in Below(depth[i]) : depth' = [depth EXCEPT ![i] = d]
               /\ retry' = [retry EXCEPT ![i] = TRUE]
               /\ pc' = [pc EXCEPT ![i] = "clear"]
               /\ err' = [err EXCEPT ![i] = e]
               /\ UNCHANGED <<val, result>>

ResponseInterceptor(i) ==
  /\ pc[i] = "sent"
  /\ \E r \in Answers(i) :
       /\ OnResponse(i, r)
       /\ first' = [first EXCEPT ![i] = IF depth[i] = 0 /\ @ = "none"
                                          THEN r.status ELSE @]
  /\ hdr' = [hdr EXCEPT ![i] = Absent]
  /\ UNCHANGED <<storeAccess, storeRefresh, validFrom, refreshValid, loggedOut, app,
                 kind, refreshes, sends>>

\* refreshAuthToken without the test of line 38: the post is made with
\* whatever getItem returned
RefreshReadUnchecked(i) ==
  /\ pc[i] = "refRead"
  /\ depth' = [depth EXCEPT ![i] = Min(@ + 1, MaxDepth)]
  /\ retry' = [retry EXCEPT ![i] = FALSE]
  /\ hdr' = [hdr EXCEPT ![i] = Absent]
  /\ pc' = [pc EXCEPT ![i] = "reqInt"]
  /\ UNCHANGED <<storeAccess, storeRefresh, backend, loggedOut, app,
                 kind, val, err, result, first, refreshes, sends>>

\* refreshAuthToken lines 37-40: getItem('@refresh_token') resolves
RefreshRead(i) ==
  /\ pc[i] = "refRead"
  /\ IF storeRefresh = Absent
       THEN \* throw new Error('No refresh token available'): catch, line 66
            /\ pc' = [pc EXCEPT ![i] = "clear"]
            /\ err' = [err EXCEPT ![i] = ENoRefresh]
            /\ UNCHANGED <<depth, retry, hdr>>
       ELSE \* api.post('auth/refresh/', ...): a new call through the client
            /\ depth' = [depth EXCEPT ![i] = Min(@ + 1, MaxDepth)]
            /\ retry' = [retry EXCEPT ![i] = FALSE]
            /\ hdr' = [hdr EXCEPT ![i] = Absent]
            /\ pc' = [pc EXCEPT ![i] = "reqInt"]
            /\ UNCHANGED err
  /\ UNCHANGED <<storeAccess, storeRefresh, backend, loggedOut, app,
                 kind, val, result, first, refreshes, sends>>

\* refreshAuthToken without the setItem of line 41: the new token is
\* returned and put in the header, and never stored
SetTokenUnsaved(i) ==
  /\ pc[i] = "setTok"
  /\ hdr' = [hdr EXCEPT ![i] = val[i]]
  /\ val' = [val EXCEPT ![i] = Absent]
  /\ pc' = [pc EXCEPT ![i] = "reqInt"]
  /\ UNCHANGED <<storeAccess, storeRefresh, backend, loggedOut, app,
                 kind, depth, retry, err, result, first, refreshes, sends>>

\* a refresh that also drops the stored refresh token
SetTokenDropsRefresh(i) ==
  /\ pc[i] = "setTok"
  /\ storeAccess' = val[i]
  /\ storeRefresh' = Absent
  /\ hdr' = [hdr EXCEPT ![i] = val[i]]
  /\ val' = [val EXCEPT ![i] = Absent]
  /\ pc' = [pc EXCEPT ![i] = "reqInt"]
  /\ UNCHANGED <<backend, loggedOut, app,
                 kind, depth, retry, err, result, first, refreshes, sends>>

\* refreshAuthToken lines 41-42 and interceptor lines 63-64: setItem
\* resolves, the token is returned, put in the header, and the call re-sent
SetToken(i) ==
  /\ pc[i] = "setTok"
  /\ storeAccess' = val[i]
  /\ hdr' = [hdr EXCEPT ![i] = val[i]]
  /\ val' = [val EXCEPT ![i] = Absent]
  /\ pc' = [pc EXCEPT ![i] = "reqInt"]
  /\ UNCHANGED <<storeRefresh, backend, loggedOut, app,
                 kind, depth, retry, err, result, first, refreshes, sends>>

\* interceptor lines 65-69: multiRemove resolves, Promise.reject(refreshError)
ClearSession(i) ==
  /\ pc[i] = "clear"
  /\ storeAccess' = Absent
  /\ storeRefresh' = Absent
  /\ IF depth[i] = 0
       THEN /\ pc' = [pc EXCEPT ![i] = "done"]
            /\ result' = [result EXCEPT ![i] = Expired(err[i])]
            /\ err' = [err EXCEPT ![i] = NoErr]
            /\ UNCHANGED depth
       ELSE \* the rejected call is a refresh post: the catch one level down
            /\ \E d \in Below(depth[i]) : depth' = [depth EXCEPT ![i] = d]
            /\ UNCHANGED <<pc, err, result>>
  /\ UNCHANGED <<backend, loggedOut, app, kind, retry, hdr, val, first, refreshes, sends>>

\* Login.handleLogin lines 27-28: setItem('@access_token', data.access)
\* resolves, then onLogin() (App.handleLogin: setIsLoggedIn(true))
LoginStore(i) ==
  /\ pc[i] = "loginStore"
  /\ storeAccess' = val[i]
  /\ val' = [val EXCEPT ![i] = Absent]
  /\ pc' = [pc EXCEPT ![i] = "done"]
  /\ result' = [result EXCEPT ![i] = Resolved]
  /\ isLoggedIn' = TRUE
  /\ UNCHANGED <<storeRefresh, backend, loggedOut, isLoading,
                 kind, depth, retry, hdr, err, first, refreshes, sends>>

\* History.tsx fetchCategories / fetchTransactions / handleEdit /
\* handleDelete: getItem('@access_token') resolves and axios sends the call
\* with the header `Bearer ${token}`; no interceptor runs
RawSend(i) ==
  /\ pc[i] = "rawRead"
  /\ hdr' = [hdr EXCEPT ![i] = IF storeAccess # Absent THEN storeAccess ELSE BearerNull]
  /\ pc' = [pc EXCEPT ![i] = "rawSent"]
  /\ UNCHANGED <<storeAccess, storeRefresh, backend, loggedOut, app,
                 kind, depth, retry, val, err, result, first, refreshes, sends>>

\* the answer to a History call: the data, or the error its catch receives
RawResponse(i) ==
  /\ pc[i] = "rawSent"
  /\ \E r \in Answers(i) :
       result' = [result EXCEPT ![i] =
                    IF r.status = "200" THEN Resolved
                    ELSE IF r.status = "401" THEN Rejected(E401)
                    ELSE Rejected(EOther)]
  /\ hdr' = [hdr EXCEPT ![i] = Absent]
  /\ pc' = [pc EXCEPT ![i] = "done"]
  /\ UNCHANGED <<storeAccess, storeRefresh, backend, loggedOut, app,
                 kind, depth, retry, val, err, first, refreshes, sends>>

\* a logout that removes one stored key per call
LogoutStoreOneKey(s) == IF s[1] # Absent THEN <<Absent, s[2]>> ELSE <<Absent, Absent>>

\* what removeItem('@access_token') makes of the store s = <<access, refresh>>
LogoutStore(s) == <<Absent, s[2]>>

\* Dashboard.handleLogout: AuthService.logout's removeItem('@access_token')
\* resolves (a key that is not stored is removed without an error too), then
\* onLogout() (App.handleLogout: setIsLoggedIn(false)).  The button is on
\* the Dashboard; a call made by a second tap before the first one completed
\* completes after it.
Logout ==
  /\ isLoggedIn \/ loggedOut
  /\ loggedOut' = TRUE
  /\ isLoggedIn' = FALSE
  /\ UNCHANGED isLoading
  /\ storeAccess' = LogoutStore(<<storeAccess, storeRefresh>>)[1]
  /\ storeRefresh' = LogoutStore(<<storeAccess, storeRefresh>>)[2]
  /\ UNCHANGED <<backend,
                 pc, kind, depth, retry, hdr, val, err, result, first, refreshes, sends>>

\* a checkAuth that shows the main tabs whatever it read
CheckAuthAssumesToken(ok) ==
  /\ isLoading
  /\ isLoggedIn' = TRUE
  /\ isLoading' = FALSE
  /\ UNCHANGED <<storeAccess, storeRefresh, backend, loggedOut,
                 pc, kind, depth, retry, hdr, val, err, result, first, refreshes, sends>>

\* App.checkAuth with the outcome of getItem('@access_token'): ok, or the
\* read throws and the catch logs it; the finally clears isLoading
CheckAuthWith(ok) ==
  /\ isLoading
  /\ isLoggedIn' = IF ok THEN storeAccess # Absent ELSE isLoggedIn
  /\ isLoading' = FALSE
  /\ UNCHANGED <<storeAccess, storeRefresh, backend, loggedOut,
                 pc, kind, depth, retry, hdr, val, err, result, first, refreshes, sends>>

\* App's useEffect on mount: checkAuth()
CheckAuth == \E ok \in BOOLEAN : CheckAuthWith(ok)

Next ==
  \/ \E i \in Req : Issue(i)
  \/ \E i \in Req : RequestInterceptor(i)
  \/ \E i \in Req : ResponseInterceptor(i)
  \/ \E i \in Req : RefreshRead(i)
  \/ \E i \in Req : SetToken(i)
  \/ \E i \in Req : ClearSession(i)
  \/ \E i \in Req : LoginStore(i)
  \/ \E i \in Req : RawSend(i)
  \/ \E i \in Req : RawResponse(i)
  \/ Logout
  \/ CheckAuth
  \/ ExpireAccess
  \/ ExpireRefresh

Spec == Init /\ [][Next]_vars

TypeOK ==
  /\ storeAccess \in Tokens \cup {Absent}
  /\ storeRefresh \in {RefreshTok, Absent}
  /\ issued \in Tokens
  /\ validFrom \in 1..(MaxTok + 1)
  /\ refreshValid \in BOOLEAN
  /\ loggedOut \in BOOLEAN
  /\ isLoading \in BOOLEAN
  /\ isLoggedIn \in BOOLEAN
  /\ pc \in [Req -> {"idle", "reqInt", "sent", "refRead", "setTok", "clear",
                     "loginStore", "rawRead", "rawSent", "done"}]
  /\ kind \in [Req -> Kinds]
  /\ depth \in [Req -> 0..MaxDepth]
  /\ retry \in [Req -> BOOLEAN]
  /\ hdr \in [Req -> Tokens \cup {Absent, BearerNull}]
  /\ val \in [Req -> Tokens \cup {Absent}]
  /\ err \in [Req -> {NoErr, E401, EOther, ENoRefresh}]
  /\ result \in [Req -> [how : {"pending", "response", "rejected", "expired"},
                         err : {NoErr, E401, EOther, ENoRefresh}]]
  /\ first \in [Req -> {"none", "200", "401", "other"}]
  /\ refreshes \in [Req -> 0..MaxRefreshes]
  /\ sends \in [Req -> 0..MaxSends]

\* A call stack is finite: the rejection travelling down it (the catch of
\* each level, ClearSession) leaves the levels that `depth` lumps together
\* after finitely many steps.
Unwinds(i) == ClearSession(i) /\ depth'[i] < depth[i]

\* The event loop runs every continuation that is ready, and the backend
\* answers every call it is sent.
FairSpec ==
  /\ Spec
  /\ WF_vars(CheckAuth)
  /\ \A i \in Req : /\ WF_vars(RequestInterceptor(i))
                    /\ WF_vars(ResponseInterceptor(i))
                    /\ WF_vars(RefreshRead(i))
                    /\ WF_vars(SetToken(i))
                    /\ WF_vars(ClearSession(i))
                    /\ WF_vars(LoginStore(i))
                    /\ WF_vars(RawSend(i))
                    /\ WF_vars(RawResponse(i))
                    /\ WF_vars(Unwinds(i))

\* The start of the app alone: getItem settles and checkAuth's continuation
\* is run; nothing is assumed of the requests or of the backend.
StartupSpec == Spec /\ WF_vars(CheckAuth)

\* ------------------------------------------------------------ vocabulary
Done(i) == pc[i] = "done"

Issued(i) == pc[i] # "idle"

AllDone == \A i \in Req : Done(i)

\* the original call of request i was answered 401
Got401(i) == first[i] = "401"

RECURSIVE SumUpTo(_, _)
SumUpTo(f, n) == IF n = 0 THEN 0 ELSE f[n] + SumUpTo(f, n - 1)

\* POST auth/refresh/ calls sent so far, by all requests
TotalRefreshCalls == SumUpTo(refreshes, NumReq)

\* POST auth/refresh/ calls in flight
OutstandingRefresh == {i \in Req : depth[i] > 0 /\ pc[i] = "sent"}

\* only data requests were issued and nobody logged out
OnlyData == ~loggedOut /\ \A i \in Req : Issued(i) => kind[i] = "data"

\* the caller got the session-expired failure: the rejection of lines 65-68
SessionExpired(i) == Done(i) /\ result[i].how = "expired"

\* ------------------------------------------------------------------ claims

\* request i got its 401 and its first refresh call has not been answered
AwaitingRefresh(i) ==
  /\ Got401(i)
  /\ refreshes[i] <= 1
  /\ \/ depth[i] = 0 /\ pc[i] = "refRead"
     \/ depth[i] = 1 /\ ~retry[i] /\ pc[i] \in {"reqInt", "sent"}

\* every request was issued, got a 401, and no refresh has been answered yet
SameWindow == \A i \in Req : AwaitingRefresh(i)

\* C1: N requests that each receive a 401 before any refresh has been
\* answered cause one POST auth/refresh/ in total, however many they are.
C1_SingleFlight == SameWindow => TotalRefreshCalls <= 1

\* C2: at most one refresh network call is outstanding in every state.
C2_OneOutstandingRefresh == Cardinality(OutstandingRefresh) <= 1

\* C4: one 401 on an original request causes at most one refresh call on its
\* behalf, also when the refresh call is itself answered 401.
C4_NoSecondRefresh == \A i \in Req : refreshes[i] <= 1

\* C3: under fair scheduling and a backend that answers every call, every
\* issued request is eventually settled, also when every answer is a 401.
\* (Stated for the runs in which only data requests are issued and nobody
\* logs out.)
C3_EveryRequestSettles ==
  \A i \in Req : []OnlyData => [](Issued(i) => <>Done(i))

\* C5: when N requests got their 401 in one refresh window and a refresh
\* succeeded (some request was re-sent), every one of them is re-sent exactly
\* once and ends in a success or a non-auth error, with no second refresh.
\* (Stated for runs where the new tokens and the refresh token stay valid.)
C5_AllRetriedOnce ==
  [](SameWindow =>
       []( ( /\ AllDone /\ OnlyData /\ refreshValid /\ validFrom <= 2
             /\ \E i \in Req : sends[i] = 2 )
           => \A i \in Req : /\ sends[i] = 2
                             /\ refreshes[i] <= 1
                             /\ result[i] \in {Resolved, Rejected(EOther)} ))

\* C6: once a refresh has failed (a request ended session-expired), both
\* tokens are absent from the store, in that state and in every later one.
C6_FailureClearsSession ==
  (OnlyData /\ \E i \in Req : SessionExpired(i)) =>
     /\ storeAccess = Absent
     /\ storeRefresh = Absent

\* C7: the original call is sent at most twice, and a 401 on the re-sent
\* call reaches the caller as the session-expired failure.
C7_RetryAtMostOnce ==
  \A i \in Req :
     kind[i] = "data" =>
        /\ sends[i] <= 2
        /\ (Done(i) /\ sends[i] = 2 /\ result[i].err = E401) => SessionExpired(i)

\* C8: an original call whose answer is not a 401 is handed to the caller as
\* it is (the response, or the same error), with no refresh call and no
\* second send.
C8_NonAuthPassesThrough ==
  \A i \in Req :
     /\ first[i] = "200" =>
          /\ refreshes[i] = 0 /\ sends[i] = 1
          /\ \/ Done(i) /\ result[i] = Resolved
             \/ kind[i] = "login" /\ pc[i] = "loginStore"
     /\ first[i] = "other" =>
          /\ refreshes[i] = 0 /\ sends[i] = 1
          /\ Done(i) /\ result[i] = Rejected(EOther)

C8_Witness ==
  \E i, j \in Req :
     /\ kind[i] = "data" /\ first[i] = "200" /\ Done(i)
     /\ kind[j] = "data" /\ first[j] = "other" /\ Done(j)

\* request i is the only one that was issued
Alone(i) == \A j \in Req \ {i} : ~Issued(j)

\* Scenario B for request i: alone, its stored access token was rejected, the
\* stored refresh token is accepted, the newest token has not expired, and
\* no call met a failure other than the 401 (result.err = EOther) nor an
\* empty refresh-token key (result.err = ENoRefresh)
ScenarioB(i) ==
  /\ Done(i) /\ Alone(i) /\ kind[i] = "data" /\ ~loggedOut
  /\ Got401(i)
  /\ refreshValid
  /\ validFrom <= issued
  /\ result[i].err \notin {EOther, ENoRefresh}

\* C9: in Scenario B the request succeeds after exactly one refresh call and
\* the token that call returned is the stored access token.
C9_ScenarioB ==
  \A i \in Req :
     ScenarioB(i) =>
        /\ result[i] = Resolved
        /\ refreshes[i] = 1
        /\ sends[i] = 2
        /\ storeAccess = issued
        /\ Accepts(storeAccess)

C9_Witness == \E i \in Req : ScenarioB(i) /\ result[i] = Resolved /\ storeAccess = 2

\* the session was cleared by a failed refresh: a request that got a 401
\* ended session-expired after its refresh call failed, both keys are absent
\* and the backend no longer accepts the refresh token
Cleared ==
  /\ storeAccess = Absent /\ storeRefresh = Absent
  /\ ~refreshValid
  /\ OnlyData
  /\ \E i \in Req : SessionExpired(i) /\ Got401(i) /\ refreshes[i] >= 1

\* C10: after Scenario C cleared the session, a request reading the (absent)
\* access token fails fast: it is not sent to the backend.
C10_FailFastAfterExpiry ==
  [][ \A j \in Req :
        (Cleared /\ pc[j] = "reqInt" /\ depth[j] = 0 /\ sends[j] = 0)
          => pc'[j] # "sent" ]_vars

\* C11: a successful login persists both tokens: when handleLogin has
\* stored what login() returned, the access token of the response is stored
\* and a refresh token is stored too.
C11_LoginPersistsBoth ==
  [][ \A i \in Req :
        LoginStore(i) => /\ storeAccess' = val[i]
                         /\ storeRefresh' # Absent ]_vars

\* C12: when logout() completes, both the access token and the refresh
\* token are absent from the store.
C12_LogoutClearsStore ==
  [][ Logout => /\ storeAccess' = Absent
                /\ storeRefresh' = Absent ]_vars

\* C13: logout() is idempotent: a second logout() called on the store the
\* first one left gives that same store (and removeItem has no failing
\* outcome for a key that is not stored).
C13_LogoutIdempotent ==
  [][ Logout => LET s1 == <<storeAccess', storeRefresh'>>
                IN  LogoutStore(s1) = s1 ]_vars

C13_Witness ==
  /\ loggedOut
  /\ storeAccess = Absent
  /\ storeRefresh = RefreshTok

\* request i holds its new token and its original call is about to be sent
\* for the second time
RetryReady(i) ==
  /\ pc[i] = "reqInt" /\ depth[i] = 0 /\ retry[i]
  /\ sends[i] = 1

\* C14: requests that got their 401 in one refresh window are re-sent in
\* the order in which they failed: when i failed before j, j's retry is
\* never sent ahead of i's.
C14_RetriesFifo ==
  \A i, j \in Req :
     (i # j) =>
       []( (Got401(i) /\ first[j] = "none") =>
             []( SameWindow =>
                   [] ~(OnlyData /\ sends[j] >= 2 /\ RetryReady(i)) ) )

\* C15: a request dispatched while an access token is stored carries that
\* token in its Authorization header: the calls through the client, the
\* call re-sent after a refresh, and the History screen's own calls.
C15_BearerAttached ==
  [][ \A i \in Req :
        ( /\ storeAccess # Absent
          /\ pc[i] \in {"reqInt", "rawRead"}
          /\ pc'[i] \in {"sent", "rawSent"} )
        => hdr'[i] = storeAccess ]_vars

C15_Witness ==
  \E i, j \in Req :
     /\ kind[i] = "data" /\ pc[i] = "sent" /\ depth[i] = 0 /\ sends[i] = 2
     /\ kind[j] = "raw" /\ pc[j] = "rawSent"
     /\ storeAccess # Absent
     /\ hdr[i] = storeAccess
     /\ hdr[j] = storeAccess

\* C16: the caller of a Service request never receives the 401 error
\* itself: a request that met a 401 ends in a response or in the
\* session-expired failure.
C16_No401Surfaced ==
  \A i \in Req : kind[i] = "data" => result[i] # Rejected(E401)

\* a step of the session layer that writes the token keys: refreshAuthToken's
\* setItem, the interceptor's multiRemove, AuthService.logout
SessionLayerWrite ==
  \/ Logout
  \/ \E i \in Req : SetToken(i)
  \/ \E i \in Req : ClearSession(i)

\* C17: the token keys are written and removed by the session layer only:
\* every step that changes the store is one of its writes.
C17_OnlySessionLayerWrites ==
  [][ (storeAccess' # storeAccess \/ storeRefresh' # storeRefresh)
        => SessionLayerWrite ]_vars

\* C18: with no access token stored, a request is never dispatched with a
\* bearer header built from the absent value.  (Stated for a store that a
\* failed refresh has emptied, the app still showing its main tabs.)
C18_NoBearerFromAbsent ==
  [][ \A i \in Req :
        ( /\ storeAccess = Absent
          /\ \E j \in Req : kind[j] = "data" /\ SessionExpired(j) /\ refreshes[j] >= 1
          /\ pc[i] \in {"reqInt", "rawRead"}
          /\ pc'[i] \in {"sent", "rawSent"} )
        => hdr'[i] # BearerNull ]_vars

\* C19: when a call was answered 401 and no refresh token is stored, no
\* refresh call is made, and the caller gets the session-expired failure
\* carrying "No refresh token available" (not the error of a failed network
\* call), with both keys absent at that moment.
C19_NoRefreshToken ==
  [][ \A i \in Req :
        /\ (RefreshRead(i) /\ storeRefresh = Absent)
             => /\ pc'[i] = "clear"
                /\ err'[i] = ENoRefresh
                /\ refreshes' = refreshes
                /\ depth' = depth
        /\ (ClearSession(i) /\ err[i] = ENoRefresh /\ depth[i] = 0)
             => /\ storeAccess' = Absent
                /\ storeRefresh' = Absent
                /\ result'[i] = Expired(ENoRefresh)
                /\ result'[i] \notin {Rejected(EOther), Expired(EOther)} ]_vars

C19_Witness ==
  \E i \in Req :
     /\ kind[i] = "data" /\ Got401(i) /\ Done(i)
     /\ result[i] = Expired(ENoRefresh)
     /\ refreshes[i] = 0 /\ sends[i] = 1
     /\ storeAccess = Absent /\ storeRefresh = Absent

\* C20: in every state the two token keys are both present or both absent.
C20_TokensPaired == (storeAccess = Absent) <=> (storeRefresh = Absent)

\* request j's refresh has just stored the token j holds for its retry
StoredByRefresh(j) ==
  /\ RetryReady(j)
  /\ storeAccess # Absent
  /\ hdr[j] = storeAccess

\* C21: with requests failing with 401 concurrently, the failure handling
\* of one request's refresh does not remove the access token that another
\* request's successful refresh has stored.
C21_FailureKeepsNewToken ==
  [][ \A i, j \in Req :
        ( /\ i # j /\ OnlyData
          /\ Got401(i) /\ Got401(j)
          /\ StoredByRefresh(j)
          /\ ClearSession(i) )
        => storeAccess' = storeAccess ]_vars

\* C22: once logout() has completed, the access token stays absent until a
\* login stores one, also when a refresh call that was in flight before the
\* logout is answered after it.  (Stated for the runs without a login, and
\* for the request whose one refresh call was in flight before the logout.)
C22_NoTokenAfterLogout ==
  \A i \in Req :
     []( (~loggedOut /\ depth[i] = 1 /\ pc[i] = "sent" /\ refreshes[i] = 1)
         => []( ( /\ loggedOut
                  /\ refreshes[i] = 1
                  /\ \A j \in Req : j # i => pc[j] = "idle"
                  /\ kind[i] = "data" )
                => storeAccess = Absent ) )

\* C23: a login answered 401 is handed to the Login screen as that error at
\* once, with no refresh path entered, and no step of that login changes
\* the stored tokens afterwards.
C23_LoginFailureNoRefresh ==
  [][ \A i \in Req :
        /\ ( /\ kind[i] = "login" /\ pc[i] = "sent"
             /\ first[i] = "none" /\ first'[i] = "401" )
           => /\ pc'[i] = "done"
              /\ result'[i] = Rejected(E401)
        /\ ( /\ kind[i] = "login" /\ Got401(i)
             /\ pc'[i] # pc[i] )
           => /\ storeAccess' = storeAccess
              /\ storeRefresh' = storeRefresh ]_vars

\* C24: whenever isLoggedIn is true (the main tabs are shown) an access
\* token is stored; a refresh failure that clears the tokens takes the app
\* back to the Login screen.
C24_LoggedInHasToken == isLoggedIn => storeAccess # Absent

\* C25: a request of any screen that is answered 401 for the first time,
\* with a valid refresh token stored, is not settled with that 401: the
\* session layer refreshes and re-sends it.  This covers the History
\* screen's calls.
C25_AllThroughSessionLayer ==
  [][ \A i \in Req :
        ( /\ kind[i] # "login"
          /\ pc[i] \in {"sent", "rawSent"}
          /\ sends[i] <= 1
          /\ storeRefresh # Absent /\ refreshValid )
        => result'[i] # Rejected(E401) ]_vars

\* C26: a successful refresh sets the stored access token to the value the
\* refresh endpoint returned and leaves the stored refresh token as it was.
C26_RefreshChangesAccessOnly ==
  [][ \A i \in Req :
        /\ (pc[i] = "sent" /\ pc'[i] = "setTok")
             => val'[i] = issued' /\ val'[i] \in Tokens
        /\ (pc[i] = "setTok" /\ pc'[i] # "setTok")
             => /\ storeAccess' = val[i]
                /\ storeRefresh' = storeRefresh ]_vars

C26_Witness ==
  \E i \in Req :
     /\ StoredByRefresh(i)
     /\ storeAccess = issued
     /\ storeRefresh = RefreshTok
     /\ refreshes[i] = 1

\* C27: at startup the app leaves the loading state, whether the read of
\* the stored token succeeds or throws; isLoggedIn becomes true exactly when
\* the read succeeded and a token is stored, and stays false when it threw.
C27_CheckAuthLeavesLoading ==
  /\ [][ /\ CheckAuthWith(TRUE)
            => /\ ~isLoading'
               /\ isLoggedIn' = (storeAccess # Absent)
         /\ CheckAuthWith(FALSE)
            => /\ ~isLoading'
               /\ ~isLoggedIn' ]_vars
  /\ <>(~isLoading)

C27_Witness ==
  /\ ~isLoading
  /\ isLoggedIn
  /\ storeAccess # Absent
  /\ \A i \in Req : pc[i] = "idle"

\* refreshAuthToken is suspended at one of its AsyncStorage awaits (line 37
\* or line 41) and resumes
RefresherResumes(i) ==
  /\ pc[i] \in {"refRead", "setTok"}
  /\ pc'[i] # pc[i]

\* C28: the token refresher does not write the credential store: no step
\* of refreshAuthToken changes a token key.
C28_RefresherLeavesStore ==
  [][ \A i \in Req :
        RefresherResumes(i) => /\ storeAccess' = storeAccess
                               /\ storeRefresh' = storeRefresh ]_vars

====
